---------------------------- MODULE Spec2Model ----------------------------
(***************************************************************************)
(* The event store of browsetrace (server/internal/database/database.go)   *)
(* and the operations on it.  The table `events` is a set of rows; the two *)
(* unique indexes of createTables and the three prepared statements of     *)
(* InsertEvents are modelled with SQLite's semantics: NULLs are distinct   *)
(* in a unique index, an ON CONFLICT ... DO UPDATE clause absorbs only a   *)
(* conflict on its own target index (which is tested first), and a         *)
(* conflict on any other unique index aborts the statement.                *)
(***************************************************************************)
EXTENDS Integers, Sequences, FiniteSets, TLC

VARIABLES
    rows,       \* the committed content of table events: a set of rows
    submitted,  \* how many events the InsertEvents calls so far carried
    last,       \* the last completed call: its arguments, the store before it, its result
    txn,        \* per caller, the InsertEvents call in flight: position in the loop and its transaction
    writer,     \* the caller whose transaction holds the database's write lock, or NoWriter
    srv         \* the process running Start: its phase and the requests its connections carry

vars == <<rows, submitted, last, txn, writer, srv>>

(***************************************************************************)
(* Values                                                                  *)
(***************************************************************************)
\* A nil *string (SessionID, FieldID, Title) and the SQL NULL it is bound as.
NULL == "<null>"

\* A nil error.
Nil == "<nil>"

validEventTypes == {"navigate", "visible_text", "click", "input", "focus"}

\* json.Marshal(event.Data) followed by SQLite's json(?): the stored text.
Marshal(data) == [json |-> data]

\* json.Unmarshal([]byte(dataJSON), &data)
Unmarshal(dataJSON) == dataJSON.json

(***************************************************************************)
(* Bounds                                                                  *)
(***************************************************************************)
\* The most events all InsertEvents calls of one run carry together.
MaxEvents == 2

\* By how many rows the large store exceeds the default limit of GET /events.
Excess == 1

(***************************************************************************)
(* ValidateEvent                                                           *)
(***************************************************************************)
\* Mutant of ValidateEvent: the timestamp test lets zero through.
ValidateEventAllowsZero(event) ==
    IF event.url = "" THEN "URL cannot be empty"
    ELSE IF event.type = "" THEN "Type cannot be empty"
    ELSE IF event.type \notin validEventTypes THEN "invalid event type"
    ELSE IF event.ts_utc < 0 THEN "timestamp must be positive"
    ELSE Nil

ValidateEvent(event) ==
    IF event.url = "" THEN "URL cannot be empty"
    ELSE IF event.type = "" THEN "Type cannot be empty"
    ELSE IF event.type \notin validEventTypes THEN "invalid event type"
    ELSE IF event.ts_utc <= 0 THEN "timestamp must be positive"
    ELSE Nil

(***************************************************************************)
(* The schema: rowid assignment and the two unique indexes                 *)
(***************************************************************************)
SetMax(S) == CHOOSE x \in S : \A y \in S : y <= x

\* id INTEGER PRIMARY KEY: a new row gets the largest rowid in use plus one.
NextId(table) == IF table = {} THEN 1 ELSE SetMax({r.id : r \in table}) + 1

\* The row the VALUES(...) clause of the three statements would insert.
NewRow(table, event) ==
    [id         |-> NextId(table),
     ts_utc     |-> event.ts_utc,
     ts_iso     |-> event.ts_iso,
     url        |-> event.url,
     title      |-> event.title,
     type       |-> event.type,
     data_json  |-> Marshal(event.data),
     session_id |-> event.session_id,
     field_id   |-> event.field_id]

\* Mutant of InputIndexConflicts: the unique index was never created.
InputIndexMissing(table, r) == {}

\* Mutant of InputIndexConflicts: the index leaves out the url column.
InputIndexWithoutUrl(table, r) ==
    {x \in table : /\ r.field_id # NULL
                   /\ r.session_id # NULL
                   /\ x.field_id = r.field_id
                   /\ x.session_id = r.session_id}

\* UNIQUE INDEX idx_input_field_session ON events(url, field_id, session_id):
\* the rows of every type that collide with r (a NULL collides with nothing).
InputIndexConflicts(table, r) ==
    {x \in table : /\ r.field_id # NULL
                   /\ r.session_id # NULL
                   /\ x.url = r.url
                   /\ x.field_id = r.field_id
                   /\ x.session_id = r.session_id}

\* Mutant of VisibleTextIndexConflicts: the unique index was never created.
VisibleTextIndexMissing(table, r) == {}

\* UNIQUE INDEX idx_visible_text_session ON events(url, session_id)
\* WHERE type = 'visible_text'.
VisibleTextIndexConflicts(table, r) ==
    {x \in table : /\ r.type = "visible_text"
                   /\ x.type = "visible_text"
                   /\ r.session_id # NULL
                   /\ x.url = r.url
                   /\ x.session_id = r.session_id}

(***************************************************************************)
(* The three prepared statements                                           *)
(***************************************************************************)
\* Mutant of DoUpdate: the SET list leaves out data_json.
DoUpdateWithoutData(old, excluded) ==
    [old EXCEPT !.ts_utc = excluded.ts_utc,
                !.ts_iso = excluded.ts_iso,
                !.title  = excluded.title]

\* Mutant of DoUpdate: a null title does not replace the stored one.
DoUpdateKeepsTitleOnNull(old, excluded) ==
    [old EXCEPT !.ts_utc    = excluded.ts_utc,
                !.ts_iso    = excluded.ts_iso,
                !.title     = IF excluded.title = NULL THEN old.title ELSE excluded.title,
                !.data_json = excluded.data_json]

\* Mutant of DoUpdate: the row changes only when the incoming event is not older.
DoUpdateNewestWins(old, excluded) ==
    IF excluded.ts_utc < old.ts_utc THEN old
    ELSE [old EXCEPT !.ts_utc    = excluded.ts_utc,
                     !.ts_iso    = excluded.ts_iso,
                     !.title     = excluded.title,
                     !.data_json = excluded.data_json]

\* DO UPDATE SET ts_utc, ts_iso, title, data_json = excluded.*
DoUpdate(old, excluded) ==
    [old EXCEPT !.ts_utc    = excluded.ts_utc,
                !.ts_iso    = excluded.ts_iso,
                !.title     = excluded.title,
                !.data_json = excluded.data_json]

\* Mutant of ChooseStmt: the choice looks at the key columns only, not at the type.
ChooseStmtByKeyOnly(event) ==
    IF event.field_id # NULL /\ event.session_id # NULL
    THEN "upsertInputStmt"
    ELSE IF event.type = "visible_text" /\ event.session_id # NULL
    THEN "upsertVisibleTextStmt"
    ELSE "insertStmt"

\* The three-way choice of statement in the loop of InsertEvents.
ChooseStmt(event) ==
    IF event.type = "input" /\ event.field_id # NULL /\ event.session_id # NULL
    THEN "upsertInputStmt"
    ELSE IF event.type = "visible_text" /\ event.session_id # NULL
    THEN "upsertVisibleTextStmt"
    ELSE "insertStmt"

\* The rows that trigger the statement's ON CONFLICT clause.
ConflictTarget(stmt, table, r) ==
    CASE stmt = "upsertInputStmt"       -> InputIndexConflicts(table, r)
      [] stmt = "upsertVisibleTextStmt" -> VisibleTextIndexConflicts(table, r)
      [] OTHER                          -> {}

\* stmt.Exec(...): the table after the statement, or the error that aborts it.
Exec(stmt, table, event) ==
    LET r      == NewRow(table, event)
        target == ConflictTarget(stmt, table, r)
    IN  IF r.type \notin validEventTypes
        THEN [err |-> "CHECK constraint failed", table |-> table]
        ELSE IF target # {}
        THEN [err   |-> Nil,
              table |-> {IF x \in target THEN DoUpdate(x, r) ELSE x : x \in table}]
        ELSE IF InputIndexConflicts(table, r) \cup VisibleTextIndexConflicts(table, r) # {}
        THEN [err |-> "UNIQUE constraint failed", table |-> table]
        ELSE [err |-> Nil, table |-> table \cup {r}]

(***************************************************************************)
(* InsertEvents                                                            *)
(***************************************************************************)
\* Mutant of Rollback: the statements already executed stay in the table.
RollbackKeepsWork(committed, working) == working

\* transaction.Rollback(): the committed table stays, the work is dropped.
Rollback(committed, working) == committed

\* transaction.Commit(): the transaction's table becomes the committed one.
Commit(committed, working) == working

\* Mutant of InsertLoop: an event that fails validation is skipped, the rest
\* of the batch is written.
RECURSIVE InsertLoopSkipsInvalid(_, _, _)
InsertLoopSkipsInvalid(table, events, i) ==
    IF i > Len(events)
    THEN [err |-> Nil, table |-> table]
    ELSE IF ValidateEvent(events[i]) # Nil
    THEN InsertLoopSkipsInvalid(table, events, i + 1)
    ELSE LET x == Exec(ChooseStmt(events[i]), table, events[i])
         IN  IF x.err # Nil
             THEN [err |-> "failed to execute statement", table |-> x.table]
             ELSE InsertLoopSkipsInvalid(x.table, events, i + 1)

\* The loop over the batch inside the transaction, from event i on.
RECURSIVE InsertLoop(_, _, _)
InsertLoop(table, events, i) ==
    IF i > Len(events)
    THEN [err |-> Nil, table |-> table]
    ELSE IF ValidateEvent(events[i]) # Nil
    THEN [err |-> "invalid event", table |-> table]
    ELSE LET x == Exec(ChooseStmt(events[i]), table, events[i])
         IN  IF x.err # Nil
             THEN [err |-> "failed to execute statement", table |-> x.table]
             ELSE InsertLoop(x.table, events, i + 1)

\* The error InsertEvents returns and the committed table it leaves.
InsertEventsResult(table, events) ==
    LET x == InsertLoop(table, events, 1)
    IN  [err   |-> x.err,
         table |-> IF x.err = Nil THEN Commit(table, x.table)
                                  ELSE Rollback(table, x.table)]

InsertEvents(events) ==
    LET x == InsertEventsResult(rows, events)
    IN  /\ rows' = x.table
        /\ submitted' = submitted + Len(events)
        /\ last' = [op |-> "InsertEvents", events |-> events,
                    before |-> rows, err |-> x.err]
        /\ UNCHANGED <<txn, writer, srv>>

\* A caller runs ValidateEvent on one event: no statement reaches the database.
ValidateEventCall(event) ==
    /\ last' = [op |-> "ValidateEvent", event |-> event,
                before |-> rows, err |-> ValidateEvent(event)]
    /\ UNCHANGED <<rows, submitted, txn, writer, srv>>

(***************************************************************************)
(* InsertEvents, statement by statement, for callers that run concurrently *)
(* (one goroutine per request).  SQLite admits one write transaction at a  *)
(* time: the first Exec of a transaction takes the write lock and Commit   *)
(* or Rollback releases it; an Exec that finds the lock taken waits, and   *)
(* fails with SQLITE_BUSY when its wait runs out.                          *)
(***************************************************************************)
Procs == {1, 2}

NoWriter == 0

IdleTxn ==
    [pc |-> "idle", events |-> << >>, i |-> 0, table |-> {}, err |-> Nil, met |-> FALSE]

InFlight(p) == txn[p].pc = "loop"

\* The call of p returns err; its transaction is over.
Returned(p, err) == [txn[p] EXCEPT !.pc = "done", !.err = err, !.table = {}]

\* d.db.Begin() and the three Prepare calls: a deferred transaction, no lock yet.
\* met records that another call was in flight at some time during this one.
Begin(p, events) ==
    /\ txn[p].pc = "idle"
    /\ Len(events) <= MaxEvents - submitted
    /\ submitted' = submitted + Len(events)
    /\ txn' = [q \in Procs |->
                  IF q = p
                  THEN [pc |-> "loop", events |-> events, i |-> 1, table |-> {},
                        err |-> Nil, met |-> \E o \in Procs \ {p} : InFlight(o)]
                  ELSE IF InFlight(q) THEN [txn[q] EXCEPT !.met = TRUE] ELSE txn[q]]
    /\ UNCHANGED <<rows, last, writer, srv>>

\* One pass of the loop whose event fails ValidateEvent: Rollback, return.
RejectEvent(p) ==
    /\ InFlight(p)
    /\ txn[p].i <= Len(txn[p].events)
    /\ ValidateEvent(txn[p].events[txn[p].i]) # Nil
    /\ rows' = Rollback(rows, txn[p].table)
    /\ writer' = IF writer = p THEN NoWriter ELSE writer
    /\ txn' = [txn EXCEPT ![p] = Returned(p, "invalid event")]
    /\ UNCHANGED <<submitted, last, srv>>

\* Mutant of ExecEvent: the statement writes to the committed table at once.
ExecEventWritesThrough(p) ==
    /\ InFlight(p)
    /\ txn[p].i <= Len(txn[p].events)
    /\ ValidateEvent(txn[p].events[txn[p].i]) = Nil
    /\ writer \in {NoWriter, p}
    /\ LET e    == txn[p].events[txn[p].i]
           base == IF writer = p THEN txn[p].table ELSE rows
           x    == Exec(ChooseStmt(e), base, e)
       IN  IF x.err = Nil
           THEN /\ txn' = [txn EXCEPT ![p].table = x.table, ![p].i = @ + 1]
                /\ writer' = p
                /\ rows' = x.table
           ELSE /\ txn' = [txn EXCEPT ![p] = Returned(p, "failed to execute statement")]
                /\ writer' = NoWriter
                /\ rows' = Rollback(rows, x.table)
    /\ UNCHANGED <<submitted, last, srv>>

\* One pass of the loop whose Exec gets (or already holds) the write lock:
\* the statement runs on the transaction's table, which starts as the
\* committed one; a failed statement rolls the transaction back.
ExecEvent(p) ==
    /\ InFlight(p)
    /\ txn[p].i <= Len(txn[p].events)
    /\ ValidateEvent(txn[p].events[txn[p].i]) = Nil
    /\ writer \in {NoWriter, p}
    /\ LET e    == txn[p].events[txn[p].i]
           base == IF writer = p THEN txn[p].table ELSE rows
           x    == Exec(ChooseStmt(e), base, e)
       IN  IF x.err = Nil
           THEN /\ txn' = [txn EXCEPT ![p].table = x.table, ![p].i = @ + 1]
                /\ writer' = p
                /\ rows' = rows
           ELSE /\ txn' = [txn EXCEPT ![p] = Returned(p, "failed to execute statement")]
                /\ writer' = NoWriter
                /\ rows' = Rollback(rows, x.table)
    /\ UNCHANGED <<submitted, last, srv>>

\* One pass of the loop whose Exec finds the write lock held by another
\* transaction until its wait runs out: SQLITE_BUSY, Rollback, return.
ExecBusy(p) ==
    /\ InFlight(p)
    /\ txn[p].i <= Len(txn[p].events)
    /\ ValidateEvent(txn[p].events[txn[p].i]) = Nil
    /\ writer \notin {NoWriter, p}
    /\ rows' = Rollback(rows, txn[p].table)
    /\ txn' = [txn EXCEPT ![p] = Returned(p, "failed to execute statement: database is locked")]
    /\ UNCHANGED <<submitted, last, writer, srv>>

\* The loop is over: transaction.Commit() publishes the table and frees the lock.
CommitTxn(p) ==
    /\ InFlight(p)
    /\ txn[p].i > Len(txn[p].events)
    /\ rows' = IF writer = p THEN Commit(rows, txn[p].table) ELSE rows
    /\ writer' = IF writer = p THEN NoWriter ELSE writer
    /\ txn' = [txn EXCEPT ![p] = Returned(p, Nil)]
    /\ UNCHANGED <<submitted, last, srv>>

(***************************************************************************)
(* GetEvents                                                               *)
(***************************************************************************)
\* A nil *int64 (SinceUTC, UntilUTC); a bound b that is set is <<b>>.
NoBound == << >>

\* Mutant of Matches: the lower bound is exclusive (ts_utc > ?).
MatchesSinceExclusive(r, filter) ==
    /\ filter.event_type # NULL => r.type = filter.event_type
    /\ filter.since_utc # NoBound => r.ts_utc > filter.since_utc[1]
    /\ filter.until_utc # NoBound => r.ts_utc <= filter.until_utc[1]

\* The WHERE clause GetEvents builds from the filter's optional fields.
Matches(r, filter) ==
    /\ filter.event_type # NULL => r.type = filter.event_type
    /\ filter.since_utc # NoBound => r.ts_utc >= filter.since_utc[1]
    /\ filter.until_utc # NoBound => r.ts_utc <= filter.until_utc[1]

\* Every arrangement of the rows of S in a sequence.
Arrangements(S) ==
    {seq \in [1..Cardinality(S) -> S] : \A i, j \in DOMAIN seq : i # j => seq[i] # seq[j]}

\* The least ts_utc among the rows of S (S is not empty).
SetMin(S) == CHOOSE x \in S : \A y \in S : x <= y

\* The rows of S with lo <= ts_utc <= hi, newest first; rows with the same
\* ts_utc come in any order.  The range is halved until it is one timestamp.
RECURSIVE DescFrom(_, _, _)
DescFrom(S, hi, lo) ==
    IF hi < lo THEN {<< >>}
    ELSE IF hi = lo THEN Arrangements({r \in S : r.ts_utc = hi})
    ELSE LET mid   == (hi + lo) \div 2
             newer == DescFrom({r \in S : r.ts_utc > mid}, hi, mid + 1)
             older == DescFrom({r \in S : r.ts_utc <= mid}, mid, lo)
         IN  {a \o b : a \in newer, b \in older}

\* The rows of S with lo <= ts_utc <= hi, oldest first.
RECURSIVE AscFrom(_, _, _)
AscFrom(S, lo, hi) ==
    IF hi < lo THEN {<< >>}
    ELSE IF hi = lo THEN Arrangements({r \in S : r.ts_utc = hi})
    ELSE LET mid   == (hi + lo) \div 2
             older == AscFrom({r \in S : r.ts_utc <= mid}, lo, mid)
             newer == AscFrom({r \in S : r.ts_utc > mid}, mid + 1, hi)
         IN  {a \o b : a \in older, b \in newer}

\* Mutant of OrderByTsDesc: ORDER BY ts_utc ASC.
OrderByTsAsc(S) ==
    IF S = {} THEN {<< >>}
    ELSE LET T == {r.ts_utc : r \in S} IN AscFrom(S, SetMin(T), SetMax(T))

\* ORDER BY ts_utc DESC: the orders SQLite may return the rows in (the order
\* of rows with equal ts_utc is not determined by the query).
OrderByTsDesc(S) ==
    IF S = {} THEN {<< >>}
    ELSE LET T == {r.ts_utc : r \in S} IN DescFrom(S, SetMax(T), SetMin(T))

\* Mutant of ApplyLimit: the page is cut from the wrong end of the order.
ApplyLimitTail(seq, limit) ==
    IF limit > 0 /\ limit < Len(seq)
    THEN SubSeq(seq, Len(seq) - limit + 1, Len(seq))
    ELSE seq

\* Mutant of ApplyLimit: a limit that is not positive stands for 100.
ApplyLimitDefault(seq, limit) ==
    LET k == IF limit > 0 THEN limit ELSE 100
    IN  IF k < Len(seq) THEN SubSeq(seq, 1, k) ELSE seq

\* LIMIT ?, added to the query only when filter.Limit > 0.
ApplyLimit(seq, limit) ==
    IF limit > 0 /\ limit < Len(seq) THEN SubSeq(seq, 1, limit) ELSE seq

\* rows.Scan and the models.Event built from it (the id is read and dropped).
ScanRow(r) ==
    [ts_utc     |-> r.ts_utc,
     ts_iso     |-> r.ts_iso,
     url        |-> r.url,
     title      |-> r.title,
     type       |-> r.type,
     data       |-> Unmarshal(r.data_json),
     session_id |-> r.session_id,
     field_id   |-> r.field_id]

\* Mutant of GetEventsResults: the event type is not validated, the query runs.
GetEventsResultsUnchecked(table, filter) ==
    {[err    |-> Nil,
      events |-> LET page == ApplyLimit(ordered, filter.limit)
                 IN  [i \in DOMAIN page |-> ScanRow(page[i])]] :
        ordered \in OrderByTsDesc({r \in table : Matches(r, filter)})}

\* The results GetEvents may return on a table: the error, or the page of
\* events in one of the orders the query allows.
GetEventsResults(table, filter) ==
    IF filter.event_type # NULL /\ filter.event_type \notin validEventTypes
    THEN {[err |-> "invalid event type", events |-> << >>]}
    ELSE {[err    |-> Nil,
           events |-> LET page == ApplyLimit(ordered, filter.limit)
                      IN  [i \in DOMAIN page |-> ScanRow(page[i])]] :
             ordered \in OrderByTsDesc({r \in table : Matches(r, filter)})}

GetEvents(filter) ==
    /\ \E x \in GetEventsResults(rows, filter) :
           last' = [op |-> "GetEvents", filter |-> filter, before |-> rows,
                    err |-> x.err, events |-> x.events]
    /\ UNCHANGED <<rows, submitted, txn, writer, srv>>

(***************************************************************************)
(* The HTTP handlers of /events (server/internal/server/server.go).  A     *)
(* request is its method, its body and its query; url.Values maps a        *)
(* parameter to the list of its values.                                    *)
(***************************************************************************)
\* filter := database.EventFilter{Limit: 100}
DefaultLimit == 100

\* The characters of the strings that query parameters carry.
Chars ==
    ("" :> << >>) @@ ("0" :> <<"0">>) @@ ("1" :> <<"1">>) @@ ("2" :> <<"2">>)
    @@ ("-1" :> <<"-", "1">>) @@ ("+2" :> <<"+", "2">>) @@ ("12" :> <<"1", "2">>)
    @@ ("2x" :> <<"2", "x">>) @@ ("abc" :> <<"a", "b", "c">>) @@ ("-" :> <<"-">>)

DigitValue ==
    ("0" :> 0) @@ ("1" :> 1) @@ ("2" :> 2) @@ ("3" :> 3) @@ ("4" :> 4)
    @@ ("5" :> 5) @@ ("6" :> 6) @@ ("7" :> 7) @@ ("8" :> 8) @@ ("9" :> 9)

\* The number a sequence of decimal digits writes.
RECURSIVE DecimalValue(_)
DecimalValue(digits) ==
    IF digits = << >> THEN 0
    ELSE 10 * DecimalValue(SubSeq(digits, 1, Len(digits) - 1))
             + DigitValue[digits[Len(digits)]]

\* strconv.ParseInt(s, 10, 64) and strconv.Atoi(s): an optional sign, then one
\* or more decimal digits; anything else is a syntax error.
ParseInt(s) ==
    LET cs     == Chars[s]
        signed == cs # << >> /\ cs[1] \in {"+", "-"}
        digits == IF signed THEN Tail(cs) ELSE cs
    IN  IF digits = << >> \/ \E i \in DOMAIN digits : digits[i] \notin DOMAIN DigitValue
        THEN [err |-> "invalid syntax", n |-> 0]
        ELSE [err |-> Nil,
              n   |-> IF signed /\ cs[1] = "-" THEN 0 - DecimalValue(digits)
                                               ELSE DecimalValue(digits)]

\* url.Values.Get: the first value of the parameter, "" when it has none.
Get(values) == IF values = << >> THEN "" ELSE values[1]

\* A []models.Event: nil until the first append.
SliceOf(events) == [nil |-> events = << >>, elems |-> events]

NilSlice == [nil |-> TRUE, elems |-> << >>]

\* http.Error(w, text, status), and w.WriteHeader(status) with text "".
Respond(status, text) ==
    [status |-> status, text |-> text, json |-> FALSE, events |-> NilSlice]

\* json.NewEncoder(w).Encode(models.Batch{Events: slice}) after the implicit
\* 200: a nil slice is written as null, any other as an array.
RespondJSON(slice) ==
    [status |-> 200, text |-> "", json |-> TRUE, events |-> slice]

\* json.NewDecoder(req.Body).Decode(&batch): a body is malformed or is a JSON
\* object whose events (none when the key is missing) fill batch.Events.
Decode(body) ==
    IF body.kind = "malformed"
    THEN [err |-> "invalid character", events |-> << >>]
    ELSE [err |-> Nil, events |-> body.events]

\* What a handler did: its response, the table it left, the store
\* operations it called, and the filter and error of its store call.
Outcome(resp, table, calls, filter, err) ==
    [resp |-> resp, table |-> table, calls |-> calls, filter |-> filter, err |-> err]

NoFilter ==
    [event_type |-> NULL, since_utc |-> NoBound, until_utc |-> NoBound, limit |-> 0]

\* Mutant of PostEventsOutcome: the empty batch is not answered early.
PostEventsOutcomeNoEmptyCheck(table, req) ==
    LET d == Decode(req.body)
    IN  IF d.err # Nil
        THEN Outcome(Respond(400, "Invalid JSON format"), table, << >>, NoFilter, Nil)
        ELSE LET x == InsertEventsResult(table, d.events)
             IN  IF x.err # Nil
                 THEN Outcome(Respond(500, "Failed to store events"), x.table,
                              <<"InsertEvents">>, NoFilter, x.err)
                 ELSE Outcome(Respond(204, ""), x.table, <<"InsertEvents">>, NoFilter, Nil)

\* Mutant of PostEventsOutcome: a store error is answered 400.
PostEventsOutcomeStoreError400(table, req) ==
    LET d == Decode(req.body)
    IN  IF d.err # Nil
        THEN Outcome(Respond(400, "Invalid JSON format"), table, << >>, NoFilter, Nil)
        ELSE IF Len(d.events) = 0
        THEN Outcome(Respond(204, ""), table, << >>, NoFilter, Nil)
        ELSE LET x == InsertEventsResult(table, d.events)
             IN  IF x.err # Nil
                 THEN Outcome(Respond(400, "Failed to store events"), x.table,
                              <<"InsertEvents">>, NoFilter, x.err)
                 ELSE Outcome(Respond(204, ""), x.table, <<"InsertEvents">>, NoFilter, Nil)

\* Mutant of PostEventsOutcome: after a failed insert the handler inserts the
\* events that pass validation on their own.
PostEventsOutcomeRetries(table, req) ==
    LET d == Decode(req.body)
    IN  IF d.err # Nil
        THEN Outcome(Respond(400, "Invalid JSON format"), table, << >>, NoFilter, Nil)
        ELSE IF Len(d.events) = 0
        THEN Outcome(Respond(204, ""), table, << >>, NoFilter, Nil)
        ELSE LET x == InsertEventsResult(table, d.events)
                 y == InsertEventsResult(x.table,
                          SelectSeq(d.events, LAMBDA e : ValidateEvent(e) = Nil))
             IN  IF x.err = Nil
                 THEN Outcome(Respond(204, ""), x.table, <<"InsertEvents">>, NoFilter, Nil)
                 ELSE IF y.err = Nil
                 THEN Outcome(Respond(204, ""), y.table,
                              <<"InsertEvents", "InsertEvents">>, NoFilter, Nil)
                 ELSE Outcome(Respond(500, "Failed to store events"), y.table,
                              <<"InsertEvents", "InsertEvents">>, NoFilter, y.err)

\* handlePostEvents: decode, answer the empty batch, insert, answer.
PostEventsOutcome(table, req) ==
    LET d == Decode(req.body)
    IN  IF d.err # Nil
        THEN Outcome(Respond(400, "Invalid JSON format"), table, << >>, NoFilter, Nil)
        ELSE IF Len(d.events) = 0
        THEN Outcome(Respond(204, ""), table, << >>, NoFilter, Nil)
        ELSE LET x == InsertEventsResult(table, d.events)
             IN  IF x.err # Nil
                 THEN Outcome(Respond(500, "Failed to store events"), x.table,
                              <<"InsertEvents">>, NoFilter, x.err)
                 ELSE Outcome(Respond(204, ""), x.table, <<"InsertEvents">>, NoFilter, Nil)

\* Mutant of LimitOf: only a negative limit is refused.
LimitOfAllowsZero(limitParam) ==
    LET x == ParseInt(limitParam)
    IN  IF x.err # Nil \/ x.n < 0
        THEN [err |-> "Invalid 'limit' parameter", n |-> 0]
        ELSE [err |-> Nil, n |-> x.n]

\* The limit parameter of handleGetEvents: strconv.Atoi, then limit <= 0.
LimitOf(limitParam) ==
    LET x == ParseInt(limitParam)
    IN  IF x.err # Nil \/ x.n <= 0
        THEN [err |-> "Invalid 'limit' parameter", n |-> 0]
        ELSE [err |-> Nil, n |-> x.n]

\* The first part of handleGetEvents: the filter built from the query, or the
\* text of the 400 that the first bad parameter is answered with.
BuildFilter(query) ==
    LET typeParam  == Get(query.type)
        sinceParam == Get(query.since)
        untilParam == Get(query.until)
        limitParam == Get(query.limit)
        since      == ParseInt(sinceParam)
        until      == ParseInt(untilParam)
        limit      == LimitOf(limitParam)
    IN  IF sinceParam # "" /\ since.err # Nil
        THEN [err |-> "Invalid 'since' parameter", filter |-> NoFilter]
        ELSE IF untilParam # "" /\ until.err # Nil
        THEN [err |-> "Invalid 'until' parameter", filter |-> NoFilter]
        ELSE IF limitParam # "" /\ limit.err # Nil
        THEN [err |-> limit.err, filter |-> NoFilter]
        ELSE [err    |-> Nil,
              filter |-> [event_type |-> IF typeParam # "" THEN typeParam ELSE NULL,
                          since_utc  |-> IF sinceParam # "" THEN <<since.n>> ELSE NoBound,
                          until_utc  |-> IF untilParam # "" THEN <<until.n>> ELSE NoBound,
                          limit      |-> IF limitParam # "" THEN limit.n ELSE DefaultLimit]]

\* Mutant of EmptyIfNil: the nil slice is encoded as it is.
EmptyIfNilMissing(slice) == slice

\* if events == nil { response.Events = []models.Event{} }
EmptyIfNil(slice) == IF slice.nil THEN [nil |-> FALSE, elems |-> << >>] ELSE slice

\* Mutant of GetEventsOutcomes: the type is looked at before the other
\* parameters are parsed, and an unknown one is answered 500.
GetEventsOutcomesTypeFirst(table, req) ==
    LET b == BuildFilter(req.query)
    IN  IF Get(req.query.type) # "" /\ Get(req.query.type) \notin validEventTypes
        THEN {Outcome(Respond(500, "Failed to retrieve events"), table,
                      <<"GetEvents">>, NoFilter, "invalid event type")}
        ELSE IF b.err # Nil
        THEN {Outcome(Respond(400, b.err), table, << >>, NoFilter, Nil)}
        ELSE {IF x.err # Nil
              THEN Outcome(Respond(500, "Failed to retrieve events"), table,
                           <<"GetEvents">>, b.filter, x.err)
              ELSE Outcome(RespondJSON(EmptyIfNil(SliceOf(x.events))), table,
                           <<"GetEvents">>, b.filter, Nil) :
                x \in GetEventsResults(table, b.filter)}

\* handleGetEvents: the outcomes for a request on a table.
GetEventsOutcomes(table, req) ==
    LET b == BuildFilter(req.query)
    IN  IF b.err # Nil
        THEN {Outcome(Respond(400, b.err), table, << >>, NoFilter, Nil)}
        ELSE {IF x.err # Nil
              THEN Outcome(Respond(500, "Failed to retrieve events"), table,
                           <<"GetEvents">>, b.filter, x.err)
              ELSE Outcome(RespondJSON(EmptyIfNil(SliceOf(x.events))), table,
                           <<"GetEvents">>, b.filter, Nil) :
                x \in GetEventsResults(table, b.filter)}

\* The handler returns: the table it left and the record of the exchange.
Handled(req, o) ==
    /\ rows' = o.table
    /\ submitted' = submitted + IF o.calls = <<"InsertEvents">>
                                THEN Len(req.body.events) ELSE 0
    /\ last' = [op |-> "handleEvents", req |-> req, before |-> rows,
                resp |-> o.resp, calls |-> o.calls, filter |-> o.filter, err |-> o.err]
    /\ UNCHANGED <<txn, writer>>

handlePostEvents(req) == Handled(req, PostEventsOutcome(rows, req))

handleGetEvents(req) == \E o \in GetEventsOutcomes(rows, req) : Handled(req, o)

\* Mutant of handleEvents: every method but GET is handled as a POST.
handleEventsDefaultPost(req) ==
    \/ req.method # "GET" /\ handlePostEvents(req)
    \/ req.method = "GET" /\ handleGetEvents(req)

\* The switch on req.Method.
handleEvents(req) ==
    \/ req.method = "POST" /\ handlePostEvents(req)
    \/ req.method = "GET" /\ handleGetEvents(req)
    \/ /\ req.method \notin {"POST", "GET"}
       /\ Handled(req, Outcome(Respond(405, "GET or POST only"), rows, << >>, NoFilter, Nil))

(***************************************************************************)
(* Start (server/internal/server/server.go): the process serves requests   *)
(* until a signal arrives, then shuts the http.Server down under a         *)
(* deadline.  phase is where Start stands: "serving" (blocked on the       *)
(* signal channel while ListenAndServe accepts), "draining" (inside        *)
(* Shutdown), "returned" (Start returned nil) or "killed" (log.Fatal ended *)
(* the process).  inflight is the request each connection carries, and     *)
(* pending records the connections that carried one when the signal came.  *)
(***************************************************************************)
\* The connections that carry requests at the same time.
Conns == {1, 2}

NoRequest == [method |-> "none"]

Busy(c) == srv.inflight[c] # NoRequest

\* events the accepted requests will hand to InsertEvents.
Accepted ==
    LET n(c) == IF Busy(c) /\ srv.inflight[c].method = "POST"
                THEN Len(srv.inflight[c].body.events) ELSE 0
    IN  n(1) + n(2)

\* s.server = &http.Server{...}; go ListenAndServe(); <-shutdownChannel
Listening ==
    [phase |-> "serving", inflight |-> [c \in Conns |-> NoRequest], pending |-> {}]

\* ListenAndServe accepts a request and starts its handler; the listener is
\* open only until Shutdown closes it.
Accept(c, req) ==
    /\ srv.phase = "serving"
    /\ ~Busy(c)
    /\ Len(req.body.events) <= MaxEvents - submitted - Accepted
    /\ srv' = [srv EXCEPT !.inflight[c] = req]
    /\ UNCHANGED <<rows, submitted, last, txn, writer>>

\* The handler of an accepted request runs to its end and the response is
\* written; the connection is idle again.
Finish(c) ==
    /\ srv.phase \in {"serving", "draining"}
    /\ Busy(c)
    /\ handleEvents(srv.inflight[c])
    /\ srv' = [srv EXCEPT !.inflight[c] = NoRequest]

\* SIGINT or SIGTERM reaches shutdownChannel; Start calls Shutdown with a
\* context that expires after 30 seconds.
Signal ==
    /\ srv.phase = "serving"
    /\ srv' = [srv EXCEPT !.phase = "draining", !.pending = {c \in Conns : Busy(c)}]
    /\ UNCHANGED <<rows, submitted, last, txn, writer>>

\* Mutant of ShutdownReturns: Shutdown returns without waiting for handlers.
ShutdownReturnsAtOnce ==
    /\ srv.phase = "draining"
    /\ srv' = [srv EXCEPT !.phase = "returned"]
    /\ UNCHANGED <<rows, submitted, last, txn, writer>>

\* Shutdown finds every connection idle and returns nil: "Server exited",
\* Start returns nil.
ShutdownReturns ==
    /\ srv.phase = "draining"
    /\ \A c \in Conns : ~Busy(c)
    /\ srv' = [srv EXCEPT !.phase = "returned"]
    /\ UNCHANGED <<rows, submitted, last, txn, writer>>

\* The context expires while a handler still runs: Shutdown returns its
\* error and log.Fatal ends the process, handlers included.
ShutdownTimesOut ==
    /\ srv.phase = "draining"
    /\ \E c \in Conns : Busy(c)
    /\ srv' = [srv EXCEPT !.phase = "killed"]
    /\ UNCHANGED <<rows, submitted, last, txn, writer>>

(***************************************************************************)
(* Input domains                                                           *)
(***************************************************************************)
\* The overwritten columns travel together: two packs (ts_utc, ts_iso, title, data).
Packs ==
    {[ts_utc |-> 1, ts_iso |-> "iso1", title |-> "t1", data |-> "a"],
     [ts_utc |-> 2, ts_iso |-> "iso2", title |-> NULL, data |-> "b"]}

MkEvent(pack, url, type, session, field) ==
    [ts_utc |-> pack.ts_utc, ts_iso |-> pack.ts_iso, url |-> url,
     title |-> pack.title, type |-> type, data |-> pack.data,
     session_id |-> session, field_id |-> field]

\* The dedup keys (url, session_id, field_id) that differ from ("u1", "s1", "f1")
\* in at most one column: the same key, another url, another session, no
\* session, no field.
StoreKeys ==
    {k \in {"u1", "u2"} \X {NULL, "s1", "s2"} \X {NULL, "f1"} :
        Cardinality({i \in 1..3 : k[i] # <<"u1", "s1", "f1">>[i]}) <= 1}

ValidStoreEvents ==
    {MkEvent(p, k[1], t, k[2], k[3]) :
        p \in Packs, k \in StoreKeys, t \in {"click", "input", "visible_text"}}

InvalidStoreEvents ==
    LET p == CHOOSE q \in Packs : q.ts_utc = 1
    IN  {MkEvent(p, "", "click", "s1", NULL),
         MkEvent(p, "u1", "", "s1", NULL),
         MkEvent(p, "u1", "scroll", "s1", NULL),
         [MkEvent(p, "u1", "input", "s1", "f1") EXCEPT !.ts_utc = 0]}

StoreEvents == ValidStoreEvents \cup InvalidStoreEvents

\* The batches of at most n events drawn from D.
BatchesOver(D, n) == UNION {[1..k -> D] : k \in 0..n}

(***************************************************************************)
(* Specification of the store under successive InsertEvents calls          *)
(***************************************************************************)
Init ==
    /\ rows = {}
    /\ submitted = 0
    /\ last = [op |-> "none"]
    /\ txn = [p \in Procs |-> IdleTxn]
    /\ writer = NoWriter
    /\ srv = Listening

Next ==
    \E events \in BatchesOver(StoreEvents, MaxEvents - submitted) :
        InsertEvents(events)

Spec == Init /\ [][Next]_vars

(***************************************************************************)
(* Specification of ValidateEvent over a domain that crosses every check   *)
(***************************************************************************)
ValidateInputs ==
    {[ts_utc |-> ts, ts_iso |-> "iso", url |-> u, title |-> NULL, type |-> t,
      data |-> "a", session_id |-> s, field_id |-> f] :
        ts \in {-1, 0, 1}, u \in {"", "u1"},
        t \in {"", "scroll"} \cup validEventTypes,
        s \in {NULL, "s1"}, f \in {NULL, "f1"}}

\* The events that fill the store the validations run against.
SeedEvents ==
    {e \in ValidStoreEvents :
        e.type = "click" /\ e.url = "u1" /\ e.session_id = "s1" /\ e.field_id = NULL}

NextValidate ==
    \/ \E event \in ValidateInputs : ValidateEventCall(event)
    \/ \E events \in BatchesOver(SeedEvents, MaxEvents - submitted) :
           InsertEvents(events)

SpecValidate == Init /\ [][NextValidate]_vars

(***************************************************************************)
(* Specification of GetEvents over stores filled by InsertEvents           *)
(***************************************************************************)
\* Events of two types and three timestamps; none of them is an upsert.
QueryEvents ==
    {[ts_utc |-> ts, ts_iso |-> "iso", url |-> "u1", title |-> NULL, type |-> t,
      data |-> "a", session_id |-> "s1", field_id |-> NULL] :
        ts \in 1..3, t \in {"click", "input"}}

Filters ==
    [event_type : {NULL, "click", "scroll"},
     since_utc  : {NoBound, <<2>>},
     until_utc  : {NoBound, <<2>>},
     limit      : 0..2]

NextQuery ==
    \/ \E filter \in Filters : GetEvents(filter)
    \/ \E events \in BatchesOver(QueryEvents, MaxEvents - submitted) :
           InsertEvents(events)

SpecQuery == Init /\ [][NextQuery]_vars

(***************************************************************************)
(* Specification of two callers of InsertEvents running concurrently       *)
(* against a store that an earlier call may have filled                    *)
(***************************************************************************)
\* The most events the earlier call carried.
MaxSeed == 1

\* Events on one url and session: keyed input events, click events with the
\* same field, visible_text events, and an event that fails validation.
ConcEvents ==
    {e \in StoreEvents :
        /\ e.url \in {"", "u1"}
        /\ e.session_id = "s1"
        /\ \/ e.type = "input" /\ e.field_id = "f1"
           \/ e.type = "click" /\ e.field_id = "f1" /\ e.ts_utc = 1
           \/ e.type = "visible_text" /\ e.field_id = NULL}

InitConc ==
    /\ \E seed \in BatchesOver(ConcEvents, MaxSeed) :
           rows = InsertEventsResult({}, seed).table
    /\ submitted = 0
    /\ last = [op |-> "none"]
    /\ txn = [p \in Procs |-> IdleTxn]
    /\ writer = NoWriter
    /\ srv = Listening

NextConc ==
    \/ \E p \in Procs, events \in BatchesOver(ConcEvents, MaxEvents) : Begin(p, events)
    \/ \E p \in Procs : RejectEvent(p)
    \/ \E p \in Procs : ExecEvent(p)
    \/ \E p \in Procs : ExecBusy(p)
    \/ \E p \in Procs : CommitTxn(p)

SpecConc == InitConc /\ [][NextConc]_vars

(***************************************************************************)
(* Specification of the /events endpoint: requests of every method, with   *)
(* well-formed and malformed bodies and queries, against the store the     *)
(* earlier POSTs filled                                                    *)
(***************************************************************************)
\* The events POST bodies carry: two clicks, a keyed input event and an
\* event that fails validation.
HttpEvents ==
    {e \in StoreEvents :
        /\ e.session_id = "s1"
        /\ \/ e.type = "click" /\ e.url \in {"", "u1"} /\ e.field_id = NULL
           \/ e.type = "input" /\ e.url = "u1" /\ e.field_id = "f1" /\ e.ts_utc = 1}

\* A request without a body: Decode meets the end of input.
NoBody == [kind |-> "malformed", events |-> << >>]

NoQuery == [type |-> << >>, since |-> << >>, until |-> << >>, limit |-> << >>]

Bodies(D) ==
    {NoBody} \cup {[kind |-> "json", events |-> b] : b \in BatchesOver(D, MaxEvents)}

\* The queries that set at most two of the four parameters.
Queries ==
    {q \in [type  : {<< >>, <<"click">>, <<"scroll">>},
            since : {<< >>, <<"">>, <<"2">>, <<"abc">>},
            until : {<< >>, <<"2">>, <<"2x">>},
            limit : {<< >>, <<"">>, <<"0">>, <<"-1">>, <<"abc">>, <<"1">>, <<"+2">>}] :
        Cardinality({k \in DOMAIN q : q[k] # << >>}) <= 2}

Requests ==
    {[method |-> "POST", body |-> b, query |-> NoQuery] : b \in Bodies(HttpEvents)}
    \cup {[method |-> "GET", body |-> NoBody, query |-> q] : q \in Queries}
    \cup {[method |-> m, body |-> b, query |-> NoQuery] :
            m \in {"PUT", "DELETE"},
            b \in {x \in Bodies(HttpEvents) : Len(x.events) <= 1}}

NextHttp ==
    \E req \in Requests :
        /\ Len(req.body.events) <= MaxEvents - submitted
        /\ handleEvents(req)
        /\ UNCHANGED srv

SpecHttp == Init /\ [][NextHttp]_vars

(***************************************************************************)
(* Specification of queries against a store that holds more rows than the  *)
(* default limit of GET /events                                            *)
(***************************************************************************)
\* One click per millisecond, oldest first.
BulkEvents ==
    [i \in 1..(DefaultLimit + Excess) |->
        [ts_utc |-> i, ts_iso |-> "iso", url |-> "u1", title |-> NULL,
         type |-> "click", data |-> "a", session_id |-> "s1", field_id |-> NULL]]

\* Two more events: a click as new as the newest row, and an old input event.
LimitEvents ==
    {[BulkEvents[Len(BulkEvents)] EXCEPT !.data = "b"],
     [BulkEvents[1] EXCEPT !.type = "input"]}

LimitFilters ==
    [event_type : {NULL, "click"}, since_utc : {NoBound, <<2>>}, until_utc : {NoBound},
     limit : 0..2]

LimitRequests ==
    {[method |-> "POST", body |-> b, query |-> NoQuery] : b \in Bodies(LimitEvents)}
    \cup {[method |-> "GET", body |-> NoBody, query |-> q] :
            q \in [type : {<< >>, <<"click">>}, since : {<< >>}, until : {<< >>},
                   limit : {<< >>, <<"2">>}]}
    \cup {[method |-> "PUT", body |-> NoBody, query |-> NoQuery]}

\* The table after InsertEvents(BulkEvents) on an empty store: every event is
\* a plain insert and takes the next id.
BulkRows ==
    {[NewRow({}, BulkEvents[i]) EXCEPT !.id = i] : i \in DOMAIN BulkEvents}

InitLimit ==
    /\ rows = BulkRows
    /\ submitted = 0
    /\ last = [op |-> "none"]
    /\ txn = [p \in Procs |-> IdleTxn]
    /\ writer = NoWriter
    /\ srv = Listening

NextLimit ==
    \/ \E filter \in LimitFilters : GetEvents(filter)
    \/ \E req \in LimitRequests :
           /\ Len(req.body.events) <= MaxEvents - submitted
           /\ handleEvents(req)
           /\ UNCHANGED srv

SpecLimit == InitLimit /\ [][NextLimit]_vars

(***************************************************************************)
(* Specification of InsertEvents calls against a store that an earlier     *)
(* call filled, with events on two urls of one session and field           *)
(***************************************************************************)
UpsertEvents ==
    {e \in ValidStoreEvents : e.session_id = "s1" /\ e.field_id = "f1"}

InitUpsert ==
    /\ \E seed \in BatchesOver(UpsertEvents, MaxSeed) :
           rows = InsertEventsResult({}, seed).table
    /\ submitted = 0
    /\ last = [op |-> "none"]
    /\ txn = [p \in Procs |-> IdleTxn]
    /\ writer = NoWriter
    /\ srv = Listening

NextUpsert ==
    \E events \in BatchesOver(UpsertEvents, MaxEvents - submitted) :
        InsertEvents(events)

SpecUpsert == InitUpsert /\ [][NextUpsert]_vars

(***************************************************************************)
(* Specification of GetEvents calls that run while two callers of          *)
(* InsertEvents are in flight                                              *)
(***************************************************************************)
\* The keyed input events, the click on the same key, and the event that
\* fails validation.
IsolationEvents ==
    {e \in ConcEvents : e.type \in {"input", "click"}}

IsolationFilters ==
    [event_type : {NULL, "input"}, since_utc : {NoBound}, until_utc : {NoBound},
     limit : {0}]

InitIsolation ==
    /\ \E seed \in BatchesOver(IsolationEvents, MaxSeed) :
           rows = InsertEventsResult({}, seed).table
    /\ submitted = 0
    /\ last = [op |-> "none"]
    /\ txn = [p \in Procs |-> IdleTxn]
    /\ writer = NoWriter
    /\ srv = Listening

NextIsolation ==
    \/ \E p \in Procs, events \in BatchesOver(IsolationEvents, MaxEvents) : Begin(p, events)
    \/ \E p \in Procs : RejectEvent(p)
    \/ \E p \in Procs : ExecEvent(p)
    \/ \E p \in Procs : ExecBusy(p)
    \/ \E p \in Procs : CommitTxn(p)
    \/ \E filter \in IsolationFilters : GetEvents(filter)

SpecIsolation == InitIsolation /\ [][NextIsolation]_vars

(***************************************************************************)
(* Specification of the running server: requests arrive on two             *)
(* connections, a signal arrives at any time, and Shutdown ends either by  *)
(* finding the connections idle or by its deadline.  Shutdown polls the    *)
(* connections and its context does expire, so one of its two ends is      *)
(* taken once Start is draining; handlers are not assumed to finish.       *)
(***************************************************************************)
\* A POST that stores a click, a POST whose event fails validation, a POST
\* without a body, a GET and a PUT.
ShutdownRequests ==
    {req \in Requests :
        /\ req.query = NoQuery
        /\ Len(req.body.events) <= 1
        /\ \A i \in DOMAIN req.body.events :
               req.body.events[i].type = "click" /\ req.body.events[i].ts_utc = 1
        /\ req.method \in {"PUT", "DELETE"} => req.body = NoBody}

NextShutdown ==
    \/ \E c \in Conns, req \in ShutdownRequests : Accept(c, req)
    \/ \E c \in Conns : Finish(c)
    \/ Signal
    \/ ShutdownReturns
    \/ ShutdownTimesOut

SpecShutdown ==
    Init /\ [][NextShutdown]_vars /\ WF_vars(ShutdownReturns \/ ShutdownTimesOut)

(***************************************************************************)
(* Vocabulary of the properties                                            *)
(***************************************************************************)
\* The last call was InsertEvents and it returned a nil error.
InsertSucceeded == last.op = "InsertEvents" /\ last.err = Nil

\* The last call was InsertEvents and it returned an error.
InsertFailed == last.op = "InsertEvents" /\ last.err # Nil

\* An input event that carries both parts of its dedup key.
InputKeyed(e) == e.type = "input" /\ e.field_id # NULL /\ e.session_id # NULL

\* A visible_text event that carries a session.
VisibleTextKeyed(e) == e.type = "visible_text" /\ e.session_id # NULL

SameInputKey(a, b) ==
    a.url = b.url /\ a.field_id = b.field_id /\ a.session_id = b.session_id

SameVisibleTextKey(a, b) == a.url = b.url /\ a.session_id = b.session_id

\* Row r carries the overwritable values of event e.
HoldsValues(r, e) ==
    /\ r.ts_utc = e.ts_utc
    /\ r.ts_iso = e.ts_iso
    /\ r.title = e.title
    /\ r.data_json = [json |-> e.data]

\* Row r is event e as stored: its key columns and its values.
Stores(r, e) == SameInputKey(r, e) /\ HoldsValues(r, e)

\* No later event of the batch addresses the input key of events[i].
LastOfInputKey(events, i) ==
    \A j \in DOMAIN events :
        j > i /\ InputKeyed(events[j]) => ~SameInputKey(events[j], events[i])

\* events[i] is the last upsert of the batch for its url and session: no later
\* event is a keyed input or visible_text event with that url and session_id.
LastUpsertOfSession(events, i) ==
    \A j \in DOMAIN events :
        j > i /\ (InputKeyed(events[j]) \/ VisibleTextKeyed(events[j]))
            => ~SameVisibleTextKey(events[j], events[i])

AllValid(events) ==
    \A i \in DOMAIN events :
        /\ events[i].url # ""
        /\ events[i].type \in {"navigate", "visible_text", "click", "input", "focus"}
        /\ events[i].ts_utc > 0

(***************************************************************************)
(* C1: InsertEvents is all-or-nothing.  Whenever a call returns an error,  *)
(* whether an event failed validation or a write failed, the stored rows   *)
(* are exactly the rows stored before the call.                            *)
(***************************************************************************)
C1_BatchAtomicity == InsertFailed => rows = last.before

\* A batch of valid events followed by one invalid event was rejected, the
\* valid ones would have been stored on their own, and the store kept its rows.
C1_Witness ==
    /\ InsertFailed
    /\ Len(last.events) >= 2
    /\ AllValid(SubSeq(last.events, 1, Len(last.events) - 1))
    /\ InsertEventsResult(last.before, SubSeq(last.events, 1, Len(last.events) - 1)).err = Nil
    /\ ~AllValid(last.events)
    /\ rows = last.before

(***************************************************************************)
(* C2: ValidateEvent returns an error exactly when the event has an empty  *)
(* url, an empty type, a type outside the five event types, or a ts_utc    *)
(* that is zero or negative; it returns nil for every other event, and the *)
(* store is the same after the call as before.                             *)
(***************************************************************************)
C2_ValidationTotality ==
    last.op = "ValidateEvent" =>
        /\ last.err # Nil <=>
               \/ last.event.url = ""
               \/ last.event.type = ""
               \/ last.event.type \notin {"navigate", "visible_text", "click", "input", "focus"}
               \/ last.event.ts_utc <= 0
        /\ rows = last.before

\* An event whose only fault is ts_utc = 0 was rejected, against a store with rows.
C2_Witness ==
    /\ last.op = "ValidateEvent"
    /\ last.event.url # ""
    /\ last.event.type = "input"
    /\ last.event.ts_utc = 0
    /\ last.err # Nil
    /\ rows # {}

(***************************************************************************)
(* C10: the sequence GetEvents returns is ordered by ts_utc, newest first: *)
(* of two adjacent results the earlier has a ts_utc greater than or equal  *)
(* to the later's, for every store content and every filter.               *)
(***************************************************************************)
C10_NewestFirst ==
    last.op = "GetEvents" /\ last.err = Nil =>
        \A i \in 1..(Len(last.events) - 1) :
            last.events[i].ts_utc >= last.events[i + 1].ts_utc

\* Two rows inserted oldest first were both returned, the newer one first.
C10_Witness ==
    /\ last.op = "GetEvents"
    /\ last.err = Nil
    /\ Len(last.events) = 2
    /\ last.events[1].ts_utc > last.events[2].ts_utc
    /\ \E r1, r2 \in rows : r1.id < r2.id /\ r1.ts_utc < r2.ts_utc

(***************************************************************************)
(* C3: after a successful InsertEvents call, every (url, field_id,         *)
(* session_id), field_id and session_id present, of an input event the     *)
(* call carried is held by exactly one input row, and that row has the     *)
(* ts_utc and data of the last input event of the batch with that key.     *)
(***************************************************************************)
C3_OneInputRowPerKey ==
    InsertSucceeded =>
        \A i \in DOMAIN last.events :
            LET e == last.events[i]
                S == {r \in rows : r.type = "input" /\ SameInputKey(r, e)}
            IN  InputKeyed(e) /\ LastOfInputKey(last.events, i) =>
                    /\ Cardinality(S) = 1
                    /\ \A r \in S : r.ts_utc = e.ts_utc /\ r.data_json = [json |-> e.data]

(***************************************************************************)
(* C4: input upsert is scoped to the full key.  Two input events of one    *)
(* successful batch that differ only in url, or only in session_id, end as *)
(* two separate rows, each with its own values (each being the last upsert *)
(* of the batch for its url and session); and an input row stored          *)
(* before a successful call is left as it was unless the call carries an   *)
(* input event with exactly its (url, field_id, session_id).               *)
(***************************************************************************)
DiffersOnlyIn(a, b, column) ==
    /\ a[column] # b[column]
    /\ \A c \in DOMAIN a : c # column => a[c] = b[c]

C4_InputUpsertScopedToKey ==
    InsertSucceeded =>
        /\ \A i, j \in DOMAIN last.events :
            LET a == last.events[i]
                b == last.events[j]
            IN  /\ i < j
                /\ a.type = "input"
                /\ DiffersOnlyIn(a, b, "url") \/ DiffersOnlyIn(a, b, "session_id")
                /\ LastUpsertOfSession(last.events, i)
                /\ LastUpsertOfSession(last.events, j)
                => \E r1, r2 \in rows :
                       r1.id # r2.id /\ Stores(r1, a) /\ Stores(r2, b)
        /\ \A r \in last.before :
            /\ r.type = "input"
            /\ \A i \in DOMAIN last.events :
                   InputKeyed(last.events[i]) => ~SameInputKey(last.events[i], r)
            => r \in rows

\* A successful batch of two keyed input events that differ only in url or
\* only in session_id left two rows.
C4_Witness ==
    /\ InsertSucceeded
    /\ Len(last.events) = 2
    /\ InputKeyed(last.events[1])
    /\ \/ DiffersOnlyIn(last.events[1], last.events[2], "url")
       \/ DiffersOnlyIn(last.events[1], last.events[2], "session_id")
    /\ Cardinality(rows) = 2

(***************************************************************************)
(* C5: after a successful InsertEvents call, every visible_text key (url,  *)
(* session_id), session present, that the call carried is held by exactly  *)
(* one visible_text row, which has the ts_utc and data of the last         *)
(* visible_text event with that key when no later event of the batch is an *)
(* upsert for the same url and session; visible_text events of the batch   *)
(* that differ in url or in session_id are held by separate rows.          *)
(***************************************************************************)
C5_VisibleTextCollapses ==
    InsertSucceeded =>
        /\ \A i \in DOMAIN last.events :
            LET e == last.events[i]
                S == {r \in rows : r.type = "visible_text" /\ SameVisibleTextKey(r, e)}
            IN  VisibleTextKeyed(e) /\ LastUpsertOfSession(last.events, i) =>
                    /\ Cardinality(S) = 1
                    /\ \A r \in S : r.ts_utc = e.ts_utc /\ r.data_json = [json |-> e.data]
        /\ \A i, j \in DOMAIN last.events :
            LET a == last.events[i]
                b == last.events[j]
            IN  /\ i < j
                /\ VisibleTextKeyed(a) /\ VisibleTextKeyed(b)
                /\ ~SameVisibleTextKey(a, b)
                /\ LastUpsertOfSession(last.events, i)
                /\ LastUpsertOfSession(last.events, j)
                => \E r1, r2 \in rows :
                       /\ r1.id # r2.id
                       /\ r1.type = "visible_text" /\ r2.type = "visible_text"
                       /\ SameVisibleTextKey(r1, a) /\ HoldsValues(r1, a)
                       /\ SameVisibleTextKey(r2, b) /\ HoldsValues(r2, b)

\* A visible_text event hit the row an earlier call stored under its
\* (url, session_id) with other values, and one row is left.
C5_Witness ==
    /\ InsertSucceeded
    /\ Len(last.events) = 1
    /\ VisibleTextKeyed(last.events[1])
    /\ \E r \in last.before :
           /\ r.type = "visible_text"
           /\ SameVisibleTextKey(r, last.events[1])
           /\ r.ts_utc # last.events[1].ts_utc
    /\ Cardinality(rows) = 1

(***************************************************************************)
(* C6: click events are never collapsed.  A successful InsertEvents call   *)
(* adds exactly one click row per click event it carries: for every        *)
(* (url, session_id) the number of click rows grows by the number of click *)
(* events of the batch with that url and session_id.                       *)
(***************************************************************************)
ClickRows(table, url, session) ==
    {r \in table : r.type = "click" /\ r.url = url /\ r.session_id = session}

ClickEvents(events, url, session) ==
    {i \in DOMAIN events : /\ events[i].type = "click"
                           /\ events[i].url = url
                           /\ events[i].session_id = session}

C6_ClicksNeverCollapsed ==
    InsertSucceeded =>
        \A i \in DOMAIN last.events :
            LET u == last.events[i].url
                s == last.events[i].session_id
            IN  Cardinality(ClickRows(rows, u, s)) =
                    Cardinality(ClickRows(last.before, u, s))
                    + Cardinality(ClickEvents(last.events, u, s))

\* A successful batch carried two click events with the same url and session.
C6_Witness ==
    /\ InsertSucceeded
    /\ Len(last.events) = 2
    /\ last.events[1].type = "click"
    /\ last.events[2].type = "click"
    /\ last.events[1].session_id # NULL
    /\ SameVisibleTextKey(last.events[1], last.events[2])
    /\ Cardinality(ClickRows(rows, last.events[1].url, last.events[1].session_id)) = 2

(***************************************************************************)
(* C7: in every reachable state of the store, under every interleaving of  *)
(* InsertEvents calls, no two input rows share a (url, field_id,           *)
(* session_id) with field_id and session_id present, and no two            *)
(* visible_text rows share a (url, session_id) with session_id present.    *)
(***************************************************************************)
C7_UniqueKeys ==
    \A r1, r2 \in rows :
        r1 # r2 =>
            /\ ~(InputKeyed(r1) /\ InputKeyed(r2) /\ SameInputKey(r1, r2))
            /\ ~(VisibleTextKeyed(r1) /\ VisibleTextKeyed(r2) /\ SameVisibleTextKey(r1, r2))

\* The call of p has returned and another call was in flight during it.
ReturnedAfterOverlap(p) == txn[p].pc = "done" /\ txn[p].met

\* Two overlapping calls that each carried one visible_text event for the
\* same (url, session_id), with different values, both returned nil, and the
\* store holds a keyed input row beside the one visible_text row.
C7_Witness ==
    /\ \A p \in Procs :
           /\ ReturnedAfterOverlap(p)
           /\ txn[p].err = Nil
           /\ Len(txn[p].events) = 1
           /\ VisibleTextKeyed(txn[p].events[1])
    /\ SameVisibleTextKey(txn[1].events[1], txn[2].events[1])
    /\ txn[1].events[1].ts_utc # txn[2].events[1].ts_utc
    /\ Cardinality({r \in rows : VisibleTextKeyed(r)}) = 1
    /\ \E r \in rows : InputKeyed(r)

(***************************************************************************)
(* C8: when two overlapping InsertEvents calls have returned, each having  *)
(* carried only input events of one and the same (url, field_id,           *)
(* session_id), and at least one returned nil, the store holds exactly one *)
(* row for that key and the row has all the values (ts_utc, ts_iso, title, *)
(* data) of the last event of a call that returned nil: never a mix, never *)
(* a second row.  When the events of both calls pass validation, at least  *)
(* one of the calls returns nil.                                           *)
(***************************************************************************)
\* The batch of p is not empty and holds only input events of one key.
KeyedBatch(p) ==
    /\ txn[p].events # << >>
    /\ \A i \in DOMAIN txn[p].events :
           /\ InputKeyed(txn[p].events[i])
           /\ SameInputKey(txn[p].events[i], txn[p].events[1])

LastEvent(p) == txn[p].events[Len(txn[p].events)]

C8_ConcurrentUpsertOneRow ==
    \A p, q \in Procs :
        /\ p # q
        /\ ReturnedAfterOverlap(p) /\ ReturnedAfterOverlap(q)
        /\ KeyedBatch(p) /\ KeyedBatch(q)
        /\ SameInputKey(LastEvent(p), LastEvent(q))
        => LET S == {r \in rows : SameInputKey(r, LastEvent(p))}
           IN  /\ txn[p].err = Nil \/ txn[q].err = Nil =>
                      /\ Cardinality(S) = 1
                      /\ \E r \in S, w \in {p, q} :
                             txn[w].err = Nil /\ HoldsValues(r, LastEvent(w))
               /\ AllValid(txn[p].events) /\ AllValid(txn[q].events) =>
                      txn[p].err = Nil \/ txn[q].err = Nil

\* Two overlapping calls carried input events of one key with different
\* values, both returned nil (one waited for the other's lock), and one row
\* holds the key.
C8_Witness ==
    /\ \A p \in Procs :
           ReturnedAfterOverlap(p) /\ KeyedBatch(p) /\ txn[p].err = Nil
    /\ SameInputKey(LastEvent(1), LastEvent(2))
    /\ LastEvent(1).data # LastEvent(2).data
    /\ Cardinality({r \in rows : SameInputKey(r, LastEvent(1))}) = 1

(***************************************************************************)
(* C9: uniqueness conflicts never reach the caller.  An InsertEvents call  *)
(* whose events all pass ValidateEvent returns a nil error, whatever the   *)
(* store holds and whatever precedes an event in its batch.                *)
(***************************************************************************)
C9_ValidBatchSucceeds ==
    last.op = "InsertEvents" /\ AllValid(last.events) => last.err = Nil

(***************************************************************************)
(* C11: GetEvents applies the supplied filters conjunctively.  No returned *)
(* event fails a supplied filter (type equal to event_type, ts_utc >=      *)
(* since, ts_utc <= until, both bounds inclusive); and when the matching   *)
(* rows are no more than a positive limit, the result holds exactly the    *)
(* matching rows, each once.                                               *)
(***************************************************************************)
\* Event e is row r as returned: every column but the id.
Shows(e, r) ==
    /\ e.ts_utc = r.ts_utc /\ e.ts_iso = r.ts_iso /\ e.url = r.url
    /\ e.title = r.title /\ e.type = r.type /\ r.data_json = [json |-> e.data]
    /\ e.session_id = r.session_id /\ e.field_id = r.field_id

\* x (a row or an event) passes every filter that was supplied.
Passes(x, f) ==
    /\ f.event_type # NULL => x.type = f.event_type
    /\ f.since_utc # NoBound => x.ts_utc >= f.since_utc[1]
    /\ f.until_utc # NoBound => x.ts_utc <= f.until_utc[1]

\* The events hold exactly the rows of M, each row once.
HoldsExactly(events, M) ==
    /\ Len(events) = Cardinality(M)
    /\ \A r \in M :
           Cardinality({i \in DOMAIN events : Shows(events[i], r)})
               = Cardinality({x \in M : [x EXCEPT !.id = r.id] = r})

C11_FiltersConjunctive ==
    last.op = "GetEvents" /\ last.err = Nil =>
        LET M == {r \in last.before : Passes(r, last.filter)}
        IN  /\ \A i \in DOMAIN last.events : Passes(last.events[i], last.filter)
            /\ last.filter.limit > 0 /\ Cardinality(M) <= last.filter.limit
                   => HoldsExactly(last.events, M)

\* A query by type and inclusive lower bound, on a store with a row on the
\* bound and a row that fails a filter, returned the one matching row.
C11_Witness ==
    /\ last.op = "GetEvents" /\ last.err = Nil
    /\ last.filter.event_type = "click"
    /\ last.filter.since_utc = <<2>>
    /\ last.filter.limit > 0
    /\ Cardinality(last.before) = 2
    /\ \E r \in last.before : r.type = "click" /\ r.ts_utc = 2
    /\ Len(last.events) = 1

(***************************************************************************)
(* C12: GetEvents with limit K > 0, called directly or by GET /events,     *)
(* returns min(K, number of matching rows) rows and they are the most      *)
(* recent: each returned event is a matching row, and every matching row   *)
(* newer than a returned event is returned too.  GET /events with no limit *)
(* parameter returns at most 100 events.                                   *)
(***************************************************************************)
\* GetEvents ran without error, called directly or by the GET handler.
QueryRan ==
    \/ last.op = "GetEvents" /\ last.err = Nil
    \/ last.op = "handleEvents" /\ last.calls = <<"GetEvents">> /\ last.err = Nil

\* The events that call returned.
QueryEventsReturned ==
    IF last.op = "GetEvents" THEN last.events ELSE last.resp.events.elems

Min(a, b) == IF a <= b THEN a ELSE b

C12_LimitTakesMostRecent ==
    /\ QueryRan /\ last.filter.limit > 0 =>
        LET E == QueryEventsReturned
            M == {r \in last.before : Passes(r, last.filter)}
        IN  /\ Len(E) = Min(last.filter.limit, Cardinality(M))
            /\ \A i \in DOMAIN E :
                   /\ \E r \in M : Shows(E[i], r)
                   /\ Cardinality({r \in M : r.ts_utc > E[i].ts_utc})
                          = Cardinality({j \in DOMAIN E : E[j].ts_utc > E[i].ts_utc})
    /\ /\ last.op = "handleEvents"
       /\ last.req.method = "GET"
       /\ last.req.query.limit = << >>
       /\ last.resp.status = 200
       => Len(last.resp.events.elems) <= 100

\* GET /events without a limit, on a store of more than 100 rows, returned
\* 100 events and left out the oldest row.
C12_Witness ==
    /\ last.op = "handleEvents"
    /\ last.req.method = "GET"
    /\ last.req.query = [type |-> << >>, since |-> << >>, until |-> << >>, limit |-> << >>]
    /\ last.resp.status = 200
    /\ Cardinality(last.before) > 100
    /\ Len(last.resp.events.elems) = 100
    /\ \A i \in DOMAIN last.resp.events.elems : last.resp.events.elems[i].ts_utc > 1

(***************************************************************************)
(* C13: a GET /events whose type parameter is not one of the five event    *)
(* types (and whose other parameters are well formed) reaches GetEvents,   *)
(* GetEvents returns an error rather than an empty result, whatever the    *)
(* store holds, the answer is 500 without an events body, and the stored   *)
(* rows are unchanged.                                                     *)
(***************************************************************************)
\* The last exchange was a GET /events.
GetHandled == last.op = "handleEvents" /\ last.req.method = "GET"

\* since, until and limit are absent, empty or numbers the handler accepts.
OtherParamsWellFormed(q) ==
    /\ q.since \in {<< >>, <<"">>, <<"2">>}
    /\ q.until \in {<< >>, <<"2">>}
    /\ q.limit \in {<< >>, <<"">>, <<"1">>, <<"+2">>}

C13_InvalidTypeIsError ==
    /\ GetHandled
    /\ last.req.query.type \notin
           {<< >>, <<"">>, <<"navigate">>, <<"visible_text">>, <<"click">>, <<"input">>, <<"focus">>}
    /\ OtherParamsWellFormed(last.req.query)
    => /\ last.calls = <<"GetEvents">>
       /\ last.err # Nil
       /\ last.resp.status = 500
       /\ ~last.resp.json
       /\ rows = last.before

\* GET /events?type=scroll on a store that holds rows was answered 500.
C13_Witness ==
    /\ GetHandled
    /\ last.req.query.type = <<"scroll">>
    /\ last.req.query.limit = << >>
    /\ last.before # {}
    /\ last.err = "invalid event type"
    /\ last.resp.status = 500

(***************************************************************************)
(* C14: a query that matches no rows is not an error.  When a well-formed  *)
(* GET /events reaches GetEvents with a valid or absent type and no stored *)
(* row passes its filters (the store may be empty), GetEvents returns no   *)
(* error and no events, and the answer is 200 with an events array that is *)
(* empty and not null.                                                     *)
(***************************************************************************)
C14_EmptyResultIsNotAnError ==
    /\ GetHandled
    /\ last.req.query.type \in {<< >>, <<"">>, <<"click">>}
    /\ OtherParamsWellFormed(last.req.query)
    /\ \A r \in last.before : ~Passes(r, last.filter)
    => /\ last.calls = <<"GetEvents">>
       /\ last.err = Nil
       /\ last.resp.status = 200
       /\ last.resp.json
       /\ ~last.resp.events.nil
       /\ last.resp.events.elems = << >>

\* GET /events?type=click&since=2 on a store whose rows all fail a filter was
\* answered 200 with an empty array.
C14_Witness ==
    /\ GetHandled
    /\ last.req.query.type = <<"click">>
    /\ last.req.query.since = <<"2">>
    /\ last.before # {}
    /\ \A r \in last.before : r.type # "click" \/ r.ts_utc < 2
    /\ last.resp.status = 200
    /\ last.resp.events = [nil |-> FALSE, elems |-> << >>]

(***************************************************************************)
(* C15: a POST /events whose body decodes to a non-empty batch is answered *)
(* 500 when an event of the batch fails validation (empty url, empty or    *)
(* unknown type, ts_utc not positive), and is answered 204 with no body    *)
(* when InsertEvents succeeds.                                             *)
(***************************************************************************)
\* The last exchange was a POST /events whose body decoded to a batch with events.
PostedBatch ==
    /\ last.op = "handleEvents"
    /\ last.req.method = "POST"
    /\ last.req.body.kind = "json"
    /\ last.req.body.events # << >>

C15_PostStatus ==
    PostedBatch =>
        /\ last.calls = <<"InsertEvents">>
        /\ ~AllValid(last.req.body.events) => last.resp.status = 500
        /\ last.err = Nil =>
               /\ last.resp.status = 204
               /\ last.resp.text = ""
               /\ ~last.resp.json

\* A batch of a valid event followed by an event with an empty url was
\* answered 500.
C15_Witness ==
    /\ PostedBatch
    /\ Len(last.req.body.events) = 2
    /\ AllValid(<<last.req.body.events[1]>>)
    /\ last.req.body.events[2].url = ""
    /\ last.resp.status = 500

(***************************************************************************)
(* C16: a POST /events with a malformed body is answered 400, and one      *)
(* whose events array is empty is answered 204; in both cases InsertEvents *)
(* is not called and the stored rows are the same as before.               *)
(***************************************************************************)
C16_PostTouchesStoreOnlyForEvents ==
    last.op = "handleEvents" /\ last.req.method = "POST" =>
        /\ last.req.body.kind = "malformed" =>
               /\ last.resp.status = 400
               /\ last.calls = << >>
               /\ rows = last.before
        /\ last.req.body.kind = "json" /\ last.req.body.events = << >> =>
               /\ last.resp.status = 204
               /\ last.calls = << >>
               /\ rows = last.before

\* A POST with an empty events array, on a store that holds rows, was
\* answered 204 without a call of InsertEvents.
C16_Witness ==
    /\ last.op = "handleEvents"
    /\ last.req.method = "POST"
    /\ last.req.body = [kind |-> "json", events |-> << >>]
    /\ last.before # {}
    /\ last.resp.status = 204
    /\ last.calls = << >>

C18_DeleteRemovesEveryRow ==
    last.op = "handleEvents" /\ last.req.method = "DELETE" =>
        /\ last.resp.status = 200
        /\ rows = {}

(***************************************************************************)
(* C19: GET /events rejects bad query syntax with 400 before it reaches    *)
(* the store.  A parameter is supplied when it has a non-empty value (the  *)
(* handler reads it with query.Get and treats "" as absent).  A supplied   *)
(* since or until that is not an integer, or a supplied limit that is not  *)
(* a positive integer (zero, negative, not a number), is answered 400.     *)
(* When the limit is not supplied and since and until are acceptable, the  *)
(* answer is not 400 and the query runs with a limit of 100.               *)
(***************************************************************************)
Supplied(values) == values # << >> /\ values[1] # ""

\* The strings of the queries that write an integer, and a positive one.
Integral(values) == values[1] \in {"0", "1", "2", "12", "-1", "+2"}

Positive(values) == values[1] \in {"1", "2", "12", "+2"}

C19_BadQueryIs400 ==
    GetHandled =>
        LET q        == last.req.query
            badSince == Supplied(q.since) /\ ~Integral(q.since)
            badUntil == Supplied(q.until) /\ ~Integral(q.until)
            badLimit == Supplied(q.limit) /\ ~Positive(q.limit)
        IN  /\ badSince \/ badUntil \/ badLimit =>
                   /\ last.resp.status = 400
                   /\ last.calls = << >>
                   /\ rows = last.before
            /\ ~Supplied(q.limit) /\ ~badSince /\ ~badUntil =>
                   /\ last.resp.status # 400
                   /\ last.calls = <<"GetEvents">>
                   /\ last.filter.limit = 100

\* GET /events?limit=0 on a store that holds rows was answered 400.
C19_Witness ==
    /\ GetHandled
    /\ last.req.query.limit = <<"0">>
    /\ last.req.query.since = << >>
    /\ last.req.query.until = << >>
    /\ last.before # {}
    /\ last.resp.status = 400

(***************************************************************************)
(* C20: an InsertEvents call whose events are all valid and none of them   *)
(* an input upsert (type input with field_id and session_id) or a          *)
(* visible_text upsert (type visible_text with session_id) returns nil and *)
(* writes each event as a new row with a fresh id, whatever the store      *)
(* holds: the rows stored before stay, and one row per event is added.     *)
(***************************************************************************)
C20_PlainInsertAlwaysAddsRow ==
    /\ last.op = "InsertEvents"
    /\ AllValid(last.events)
    /\ \A i \in DOMAIN last.events :
           ~InputKeyed(last.events[i]) /\ ~VisibleTextKeyed(last.events[i])
    => /\ last.err = Nil
       /\ last.before \subseteq rows
       /\ Cardinality(rows) = Cardinality(last.before) + Len(last.events)
       /\ \A r \in rows \ last.before : \A x \in last.before : r.id # x.id

(***************************************************************************)
(* C21: when the one event of a successful InsertEvents call is an upsert  *)
(* that hits an existing row (an input event with field_id and session_id *)
(* and a row with its url, field_id and session_id; a visible_text event   *)
(* with session_id and a visible_text row with its url and session_id),    *)
(* the store after the call is the store before it with that row's ts_utc, *)
(* ts_iso, title and data replaced by the event's (a null title too): the  *)
(* row keeps its id, url, field_id and session_id, no row is added and     *)
(* every other row is unchanged.                                           *)
(***************************************************************************)
\* The rows that an upsert of event e hits.
HitBy(table, e) ==
    {x \in table :
        \/ InputKeyed(e) /\ SameInputKey(x, e)
        \/ VisibleTextKeyed(e) /\ x.type = "visible_text" /\ SameVisibleTextKey(x, e)}

\* The last call was a successful InsertEvents of one upsert event.
OneUpsertSucceeded ==
    /\ InsertSucceeded
    /\ Len(last.events) = 1
    /\ InputKeyed(last.events[1]) \/ VisibleTextKeyed(last.events[1])

C21_UpsertOverwritesFourColumns ==
    OneUpsertSucceeded =>
        LET e == last.events[1]
        IN  \A x \in HitBy(last.before, e) :
                rows = (last.before \ {x}) \cup
                       {[id |-> x.id, url |-> x.url, type |-> x.type,
                         field_id |-> x.field_id, session_id |-> x.session_id,
                         ts_utc |-> e.ts_utc, ts_iso |-> e.ts_iso, title |-> e.title,
                         data_json |-> [json |-> e.data]]}

\* An input upsert with a null title hit a row that had a title, in a store
\* of two rows; the row kept its id and lost its title, the other row stayed.
C21_Witness ==
    /\ OneUpsertSucceeded
    /\ InputKeyed(last.events[1])
    /\ last.events[1].title = NULL
    /\ \E x \in HitBy(last.before, last.events[1]) :
           /\ x.type = "input"
           /\ x.title # NULL
           /\ \E r \in rows : r.id = x.id /\ r.title = NULL
    /\ Cardinality(last.before) = 2
    /\ Cardinality(rows) = 2
    /\ \E y \in last.before : y \in rows

(***************************************************************************)
(* C29: upsert overwrite is unconditional.  When the one event of a        *)
(* successful InsertEvents call is an upsert that hits a row with a larger *)
(* ts_utc, the row's ts_utc and data become the event's: the stored ts_utc *)
(* of the row decreases.                                                   *)
(***************************************************************************)
C29_LastWriteWins ==
    OneUpsertSucceeded =>
        LET e == last.events[1]
        IN  \A x \in HitBy(last.before, e) :
                x.ts_utc > e.ts_utc =>
                    \E r \in rows : /\ r.id = x.id
                                    /\ r.ts_utc = e.ts_utc
                                    /\ r.ts_utc < x.ts_utc
                                    /\ r.data_json = [json |-> e.data]

\* A visible_text upsert with ts_utc 1 hit the row stored with ts_utc 2.
C29_Witness ==
    /\ OneUpsertSucceeded
    /\ VisibleTextKeyed(last.events[1])
    /\ last.events[1].ts_utc = 1
    /\ \E x \in HitBy(last.before, last.events[1]) : x.ts_utc = 2
    /\ \A r \in rows : r.ts_utc = 1

(***************************************************************************)
(* C28: after a successful InsertEvents call that carried an input event   *)
(* with url U, field_id F and session_id S (both present), the store holds *)
(* a row of type input with that (U, F, S) and the data of the last such   *)
(* event, whatever rows of other types held (U, F, S) before the call.     *)
(***************************************************************************)
C28_InputRowExists ==
    InsertSucceeded =>
        \A i \in DOMAIN last.events :
            InputKeyed(last.events[i]) /\ LastOfInputKey(last.events, i) =>
                \E r \in rows : /\ r.type = "input"
                                /\ SameInputKey(r, last.events[i])
                                /\ r.data_json = [json |-> last.events[i].data]

(***************************************************************************)
(* C22: at the store level a limit of zero is no limit.  The original      *)
(* statement, that GetEvents called with a limit of zero returns at most   *)
(* 100 rows however many match:                                            *)
(***************************************************************************)
C22_ZeroLimitAppliesDefault ==
    last.op = "GetEvents" /\ last.err = Nil /\ last.filter.limit = 0 =>
        Len(last.events) <= 100

(***************************************************************************)
(* C22, amended: GetEvents called with a limit of zero returns every       *)
(* matching row, each once, however many match.                            *)
(***************************************************************************)
C22_ZeroLimitReturnsAll ==
    last.op = "GetEvents" /\ last.err = Nil /\ last.filter.limit = 0 =>
        HoldsExactly(last.events, {r \in last.before : Passes(r, last.filter)})

\* GetEvents with a limit of zero returned more than 100 events.
C22_Witness ==
    /\ last.op = "GetEvents"
    /\ last.err = Nil
    /\ last.filter.limit = 0
    /\ Len(last.events) > 100

(***************************************************************************)
(* C25: the service never retries.  A POST /events calls InsertEvents at   *)
(* most once and no other store operation, a GET /events calls GetEvents   *)
(* at most once and no other; when the call fails the same request is      *)
(* answered 500 after that one call, and the stored rows are as before.    *)
(***************************************************************************)
C25_NoRetry ==
    last.op = "handleEvents" =>
        /\ Len(last.calls) <= 1
        /\ \A i \in DOMAIN last.calls :
               /\ last.req.method = "POST" => last.calls[i] = "InsertEvents"
               /\ last.req.method = "GET" => last.calls[i] = "GetEvents"
        /\ last.err # Nil =>
               /\ Len(last.calls) = 1
               /\ last.resp.status = 500
               /\ rows = last.before

\* A POST whose batch held a valid and an invalid event failed in its one
\* InsertEvents call and was answered 500; nothing of the batch was stored.
C25_Witness ==
    /\ PostedBatch
    /\ \E i \in DOMAIN last.req.body.events : AllValid(<<last.req.body.events[i]>>)
    /\ ~AllValid(last.req.body.events)
    /\ last.err # Nil
    /\ last.calls = <<"InsertEvents">>
    /\ last.resp.status = 500
    /\ rows = last.before

(***************************************************************************)
(* C30: on GET /events a malformed parameter takes precedence over an      *)
(* invalid type.  A request with an unrecognized type and a supplied since *)
(* or until that is not an integer, or a supplied limit that is not a      *)
(* positive integer, is answered 400 and GetEvents is not called.          *)
(***************************************************************************)
C30_MalformedBeforeInvalidType ==
    /\ GetHandled
    /\ Supplied(last.req.query.type)
    /\ last.req.query.type[1] \notin {"navigate", "visible_text", "click", "input", "focus"}
    /\ \/ Supplied(last.req.query.since) /\ ~Integral(last.req.query.since)
       \/ Supplied(last.req.query.until) /\ ~Integral(last.req.query.until)
       \/ Supplied(last.req.query.limit) /\ ~Positive(last.req.query.limit)
    => /\ last.resp.status = 400
       /\ last.calls = << >>
       /\ last.err = Nil

\* GET /events?type=scroll&until=2x was answered 400.
C30_Witness ==
    /\ GetHandled
    /\ last.req.query.type = <<"scroll">>
    /\ last.req.query.until = <<"2x">>
    /\ last.resp.status = 400
    /\ last.calls = << >>

TimedOut(p) == txn[p].err = "failed to execute statement: database is locked"

C23_ContendedWritersSucceed ==
    \A p, q \in Procs :
        /\ p # q
        /\ ReturnedAfterOverlap(p) /\ ReturnedAfterOverlap(q)
        /\ txn[p].events # << >> /\ txn[q].events # << >>
        /\ AllValid(txn[p].events) /\ AllValid(txn[q].events)
        /\ ~TimedOut(p) /\ ~TimedOut(q)
        => txn[p].err = Nil /\ txn[q].err = Nil

(***************************************************************************)
(* C27: batches are isolated from readers.  The committed table, which is  *)
(* what every GetEvents call reads, changes only in the step in which an   *)
(* InsertEvents call returns nil, and then by the whole batch at once; a   *)
(* call that returns an error leaves it as it was; and a GetEvents call    *)
(* without a limit returns exactly the matching rows of that table, also   *)
(* while a transaction holds statements that are not committed.            *)
(***************************************************************************)
C27_BatchesIsolated ==
    [][/\ rows' # rows =>
              \E p \in Procs :
                  /\ InFlight(p)
                  /\ txn'[p].pc = "done"
                  /\ txn'[p].err = Nil
                  /\ InsertEventsResult(rows, txn[p].events) = [err |-> Nil, table |-> rows']
       /\ \A p \in Procs :
              InFlight(p) /\ txn'[p].pc = "done" /\ txn'[p].err # Nil => rows' = rows
       /\ last' # last =>
              /\ last'.op = "GetEvents"
              /\ last'.before = rows
              /\ HoldsExactly(last'.events, {r \in rows : Passes(r, last'.filter)})
              /\ rows' = rows
      ]_vars

\* A reader has seen the committed rows, all of them, while a call with a
\* batch of two events holds the write lock with its first statement
\* executed and not committed.
C27_Witness ==
    /\ last.op = "GetEvents" /\ last.err = Nil
    /\ last.before = rows
    /\ rows # {}
    /\ HoldsExactly(last.events, rows)
    /\ \E p \in Procs :
           /\ InFlight(p) /\ writer = p
           /\ Len(txn[p].events) = 2 /\ txn[p].i = 2
           /\ txn[p].table # rows

(***************************************************************************)
(* C24: graceful shutdown.  After the signal no new request is accepted;   *)
(* a request leaves its connection only by its handler running to the end; *)
(* Start returns only from draining with no request in flight; the process *)
(* is killed only from draining with a request still in flight (the grace  *)
(* period ran out); and once the signal has arrived, Start returns or the  *)
(* process is killed.                                                      *)
(***************************************************************************)
C24_NoNewRequests ==
    srv.phase # "serving" =>
        \A c \in Conns : srv'.inflight[c] \in {srv.inflight[c], NoRequest}

C24_RequestsRunToTheEnd ==
    \A c \in Conns :
        Busy(c) /\ srv'.inflight[c] = NoRequest =>
            /\ last'.op = "handleEvents"
            /\ last'.req = srv.inflight[c]

C24_ReturnsWhenIdle ==
    srv'.phase = "returned" /\ srv.phase # "returned" =>
        /\ srv.phase = "draining"
        /\ \A c \in Conns : ~Busy(c)

C24_KilledAtDeadline ==
    srv'.phase = "killed" /\ srv.phase # "killed" =>
        /\ srv.phase = "draining"
        /\ \E c \in Conns : Busy(c)

C24_GracefulShutdown ==
    /\ [][/\ C24_NoNewRequests
          /\ C24_RequestsRunToTheEnd
          /\ C24_ReturnsWhenIdle
          /\ C24_KilledAtDeadline]_vars
    /\ (srv.phase = "draining") ~> (srv.phase \in {"returned", "killed"})

\* Start returned after the signal found both connections carrying a
\* request, one of them a POST whose event is now stored.
C24_Witness ==
    /\ srv.phase = "returned"
    /\ srv.pending = Conns
    /\ \A c \in Conns : ~Busy(c)
    /\ last.op = "handleEvents"
    /\ rows # {}

=============================================================================
